---- MODULE Spec2Model ----
(***************************************************************************)
(* A model of the control core of the JupyterLab Git extension:            *)
(*                                                                         *)
(*   - src/src/index.ts: activate() binds the extension's repository path  *)
(*     to the file browser (the startup-restore join and the pathChanged   *)
(*     handler), refreshes the status on fileChanged, and renders every    *)
(*     logger event as a status text (onEvent);                            *)
(*   - src/unnamed/part_000: the ResetDeleteSingleCommit component, which  *)
(*     runs one hard reset or one revert of a commit, or is cancelled.     *)
(*                                                                         *)
(* JavaScript runs each handler to completion, so an action is one task:   *)
(* a handler from its entry to its return or to its first await, and the   *)
(* continuation of an await from its resumption to the return.  React      *)
(* applies the setState calls of an event handler and renders again before *)
(* the next event is dispatched, so the state written by a handler is the  *)
(* state the next handler sees.  Strings are TLA+ strings: Len, \o and     *)
(* SubSeq work on them character by character.                             *)
(***************************************************************************)
EXTENDS Integers, Sequences, FiniteSets, TLC

VARIABLES
    \* ---- src/src/index.ts ----
    activated,       \* activate() has resumed from `await settingRegistry.load` and run to its return
    appRestored,     \* the promise app.restored is resolved
    fbRestored,      \* the promise filebrowser.model.restored is resolved
    restoreRan,      \* the callback of Promise.all([...]).then has run
    fbPath,          \* filebrowser.model.path
    cdCount,         \* number of directory changes of the file browser so far
    pathRepository,  \* the value last assigned to gitExtension.pathRepository
    pathWrites,      \* history: the assignments to gitExtension.pathRepository, in order
    refreshCalls,    \* number of calls of gitExtension.refreshStatus()
    status,          \* statusWidget.status
    lastEvent,       \* history: the event of the latest logger emission
    eventCount,      \* history: number of logger emissions delivered to onEvent
    fileChanges,     \* history: number of fileChanged notifications delivered to the handler
    \* ---- src/unnamed/part_000 ----
    action,          \* props.action
    commit,          \* props.commit: [commit, commit_msg]
    message,         \* state.message
    disabled,        \* state.disabled
    pending,         \* the suspended activations of _onSubmitClick, each awaiting its service call
    log,             \* history: the collaborator calls made by the component, in order
    cancelled,       \* history: _onCancelClick has run
    derivations,     \* history: number of times _onSubmitClick evaluated this._defaultMessage()
    outcomes,        \* history: how the service calls settled, in order
    thrown,          \* history: what the rejected service calls threw, in order
    submitPromise    \* the promise returned by the latest call of _onSubmitClick

activateVars == <<activated, appRestored, fbRestored, restoreRan, fbPath, cdCount,
                  pathRepository, pathWrites, refreshCalls, status, lastEvent,
                  eventCount, fileChanges>>

componentVars == <<action, commit, message, disabled, pending, log, cancelled,
                   derivations, outcomes, thrown, submitPromise>>

vars == <<activated, appRestored, fbRestored, restoreRan, fbPath, cdCount,
          pathRepository, pathWrites, refreshCalls, status, lastEvent,
          eventCount, fileChanges,
          action, commit, message, disabled, pending, log, cancelled,
          derivations, outcomes, thrown, submitPromise>>

(***************************************************************************)
(* Bounds of the model.                                                    *)
(***************************************************************************)
\* Directory changes of the file browser in one run.
MaxChanges == 3

\* fileChanged notifications counted in one run.
MaxRefresh == 2

\* Logger emissions counted in one run.
MaxEvents == 2

\* Length of the strings put before and after git:add:files in an event name.
MaxAffix == 2

Min(a, b) == IF a < b THEN a ELSE b

(***************************************************************************)
(* JavaScript strings.                                                     *)
(***************************************************************************)
\* The strings over the alphabet of length at most n.
RECURSIVE StringsUpTo(_, _)
StringsUpTo(alphabet, n) ==
    IF n = 0 THEN {""}
    ELSE LET shorter == StringsUpTo(alphabet, n - 1)
         IN  shorter \cup {s \o c : s \in shorter, c \in alphabet}

\* String.prototype.indexOf-style search: pat occurs in s at position i (1-based).
OccursAt(s, pat, i) ==
    /\ i >= 1
    /\ i + Len(pat) - 1 <= Len(s)
    /\ SubSeq(s, i, i + Len(pat) - 1) = pat


(***************************************************************************)
(* src/src/index.ts: the status texts of onEvent.                          *)
(***************************************************************************)
\* The pattern of the regular expression /git:add:files/ (a literal, no anchors).
AddFilesPattern == "git:add:files"

\* RegExp.prototype.test for a literal pattern without anchors: the pattern
\* occurs somewhere in the string.
RegexTest(pat, s) == \E i \in 1..Len(s) : OccursAt(s, pat, i)

\* The switch of onEvent: the text assigned to `status` for an event name.
translate(event) ==
    CASE event = "git:checkout"      -> "checking out..."
      [] event = "git:clone"         -> "cloning repository..."
      [] event = "git:commit:create" -> "committing changes..."
      [] event = "git:commit:revert" -> "reverting changes..."
      [] event = "git:idle"          -> "idle"
      [] event = "git:init"          -> "initializing repository..."
      [] event = "git:pull"          -> "pulling changes..."
      [] event = "git:pushing"       -> "pushing changes..."
      [] event = "git:refresh"       -> "refreshing..."
      [] event = "git:reset:changes" -> "resetting changes..."
      [] event = "git:reset:hard"    -> "discarding changes..."
      [] OTHER -> IF RegexTest(AddFilesPattern, event)
                  THEN "adding files..."
                  ELSE "working..."

(***************************************************************************)
(* The inputs of the model of index.ts.                                    *)
(***************************************************************************)
\* The directories the file browser moves between.
Paths == {"/a", "/b", "/c"}

\* gitExtension.pathRepository before anything is assigned to it.
NoPath == "<unassigned>"

\* statusWidget.status and the latest event before any event is emitted.
NoStatus == "<no status>"
NoEvent == "<no event>"

\* The event names onEvent has a case for.
NamedEvents ==
    {"git:checkout", "git:clone", "git:commit:create", "git:commit:revert",
     "git:idle", "git:init", "git:pull", "git:pushing", "git:refresh",
     "git:reset:changes", "git:reset:hard"}

\* The characters put around event names.
AffixAlphabet == {"x", ":", "s"}

Affixes == StringsUpTo(AffixAlphabet, MaxAffix)

\* The proper prefixes of git:add:files, the empty string among them.
PatternPrefixes == {SubSeq(AddFilesPattern, 1, k) : k \in 0..(Len(AddFilesPattern) - 1)}

\* Event names: the named ones, the named ones with a character before or
\* after, git:add:files with any affixes around it, and near misses of it.
EventInputs ==
    NamedEvents
    \cup {p \o AddFilesPattern \o s : p \in Affixes, s \in Affixes}
    \cup {"x" \o e : e \in NamedEvents}
    \cup {e \o "x" : e \in NamedEvents}
    \cup PatternPrefixes
    \cup {"GIT:ADD:FILES", "git:add:file:s", "git:add:all", "add:files", "unknown"}

\* The event names emitted when the whole of activate() is explored.
EventSample ==
    {"git:checkout", "git:idle", "git:refresh", "git:add:files",
     "git:add:files:all", "xgit:add:files", "git:add:file", "unknown"}

(***************************************************************************)
(* src/src/index.ts: activate() and the handlers it connects.              *)
(***************************************************************************)
InitActivate ==
    /\ activated = FALSE
    /\ appRestored = FALSE
    /\ fbRestored = FALSE
    /\ restoreRan = FALSE
    /\ fbPath = ""
    /\ cdCount = 0
    /\ pathRepository = NoPath
    /\ pathWrites = <<>>
    /\ refreshCalls = 0
    /\ status = NoStatus
    /\ lastEvent = NoEvent
    /\ eventCount = 0
    /\ fileChanges = 0

\* The assignment `gitExtension.pathRepository = v`, made by `by`.
SetPathRepository(by, v) ==
    /\ pathRepository' = v
    /\ pathWrites' = Append(pathWrites, [by |-> by, value |-> v])

\* activate() resumes after `await settingRegistry.load(...)` and runs to its
\* return: it registers the restore callback and connects the three handlers.
\* Nothing is assigned in this task; the restore callback is a later task even
\* when both promises are resolved already.
Activate ==
    /\ ~activated
    /\ activated' = TRUE
    /\ UNCHANGED <<appRestored, fbRestored, restoreRan, fbPath, cdCount,
                   pathRepository, pathWrites, refreshCalls, status, lastEvent>>
    /\ UNCHANGED componentVars
    /\ UNCHANGED <<eventCount, fileChanges>>

\* The host application resolves app.restored.
AppRestored ==
    /\ ~appRestored
    /\ appRestored' = TRUE
    /\ UNCHANGED <<activated, fbRestored, restoreRan, fbPath, cdCount,
                   pathRepository, pathWrites, refreshCalls, status, lastEvent>>
    /\ UNCHANGED componentVars
    /\ UNCHANGED <<eventCount, fileChanges>>

\* The file browser resolves filebrowser.model.restored.
BrowserRestored ==
    /\ ~fbRestored
    /\ fbRestored' = TRUE
    /\ UNCHANGED <<activated, appRestored, restoreRan, fbPath, cdCount,
                   pathRepository, pathWrites, refreshCalls, status, lastEvent>>
    /\ UNCHANGED componentVars
    /\ UNCHANGED <<eventCount, fileChanges>>

\* A restore callback that assigns the path the browser started with, not the
\* one it has when the callback runs.
RestoreCallbackStale ==
    /\ activated /\ appRestored /\ fbRestored /\ ~restoreRan
    /\ restoreRan' = TRUE
    /\ SetPathRepository("restore", "")
    /\ UNCHANGED <<activated, appRestored, fbRestored, fbPath, cdCount,
                   refreshCalls, status, lastEvent>>
    /\ UNCHANGED componentVars
    /\ UNCHANGED <<eventCount, fileChanges>>

\* A restore callback that runs as soon as one of the two promises is resolved
\* (a race instead of a join).
RestoreCallbackOnFirst ==
    /\ activated /\ (appRestored \/ fbRestored) /\ ~restoreRan
    /\ restoreRan' = TRUE
    /\ SetPathRepository("restore", fbPath)
    /\ UNCHANGED <<activated, appRestored, fbRestored, fbPath, cdCount,
                   refreshCalls, status, lastEvent>>
    /\ UNCHANGED componentVars
    /\ UNCHANGED <<eventCount, fileChanges>>

\* The callback of Promise.all([app.restored, filebrowser.model.restored]).then:
\* it runs once, after the callback is registered and both promises are resolved.
RestoreCallback ==
    /\ activated /\ appRestored /\ fbRestored /\ ~restoreRan
    /\ restoreRan' = TRUE
    /\ SetPathRepository("restore", fbPath)
    /\ UNCHANGED <<activated, appRestored, fbRestored, fbPath, cdCount,
                   refreshCalls, status, lastEvent>>
    /\ UNCHANGED componentVars
    /\ UNCHANGED <<eventCount, fileChanges>>

\* A pathChanged handler that assigns only while no path is assigned yet.
onPathChangedIfUnset(change) ==
    IF pathRepository = NoPath
    THEN SetPathRepository("pathChanged", change.newValue)
    ELSE UNCHANGED <<pathRepository, pathWrites>>

\* The handler connected to filebrowser.model.pathChanged.
onPathChanged(change) == SetPathRepository("pathChanged", change.newValue)

\* The file browser changes its directory to d and emits pathChanged; the
\* signal is delivered synchronously to the handler, when it is connected.
BrowserPathChanged(d) ==
    /\ cdCount < MaxChanges
    /\ cdCount' = cdCount + 1
    /\ fbPath' = d
    /\ IF activated
       THEN onPathChanged([oldValue |-> fbPath, newValue |-> d])
       ELSE UNCHANGED <<pathRepository, pathWrites>>
    /\ UNCHANGED <<activated, appRestored, fbRestored, restoreRan,
                   refreshCalls, status, lastEvent>>
    /\ UNCHANGED componentVars
    /\ UNCHANGED <<eventCount, fileChanges>>

\* A fileChanged handler that refreshes once and ignores later notifications.
BrowserFileChangedCoalesced ==
    /\ activated
    /\ fileChanges < MaxRefresh
    /\ fileChanges' = fileChanges + 1
    /\ refreshCalls' = IF refreshCalls = 0 THEN 1 ELSE refreshCalls
    /\ UNCHANGED <<activated, appRestored, fbRestored, restoreRan, fbPath, cdCount,
                   pathRepository, pathWrites, status, lastEvent, eventCount>>
    /\ UNCHANGED componentVars

\* The file browser emits fileChanged; the connected handler calls refreshStatus().
BrowserFileChanged ==
    /\ activated
    /\ fileChanges < MaxRefresh
    /\ refreshCalls' = refreshCalls + 1
    /\ UNCHANGED <<activated, appRestored, fbRestored, restoreRan, fbPath, cdCount,
                   pathRepository, pathWrites, status, lastEvent>>
    /\ UNCHANGED componentVars
    /\ fileChanges' = fileChanges + 1
    /\ UNCHANGED eventCount

\* onEvent keeping the text of the first event while one is displayed.
onEventKeepFirst(event) ==
    /\ activated
    /\ eventCount < MaxEvents
    /\ status' = IF status = NoStatus THEN translate(event) ELSE status
    /\ lastEvent' = event
    /\ eventCount' = eventCount + 1
    /\ UNCHANGED <<activated, appRestored, fbRestored, restoreRan, fbPath, cdCount,
                   pathRepository, pathWrites, refreshCalls, fileChanges>>
    /\ UNCHANGED componentVars

\* onEvent(model, event): the handler connected to gitExtension.logger.
onEvent(event) ==
    /\ activated
    /\ eventCount < MaxEvents
    /\ status' = translate(event)
    /\ lastEvent' = event
    /\ UNCHANGED <<activated, appRestored, fbRestored, restoreRan, fbPath, cdCount,
                   pathRepository, pathWrites, refreshCalls>>
    /\ UNCHANGED componentVars
    /\ eventCount' = eventCount + 1
    /\ UNCHANGED fileChanges

(***************************************************************************)
(* src/unnamed/part_000: the strings of ResetDeleteSingleCommit.           *)
(***************************************************************************)
\* String.prototype.slice(start, end) for 0 <= start <= end (0-based, end excluded).
Slice(s, start, end) == SubSeq(s, start + 1, Min(end, Len(s)))

\* The first position of the one-character separator in s, 0 when there is none.
IndexOfChar(s, sep) ==
    IF \E i \in 1..Len(s) : SubSeq(s, i, i) = sep
    THEN CHOOSE i \in 1..Len(s) :
            /\ SubSeq(s, i, i) = sep
            /\ \A j \in 1..(i - 1) : SubSeq(s, j, j) # sep
    ELSE 0

\* String.prototype.split(sep) for a one-character separator: the pieces in order.
RECURSIVE Split(_, _)
Split(s, sep) ==
    LET i == IndexOfChar(s, sep)
    IN  IF i = 0 THEN <<s>>
        ELSE <<SubSeq(s, 1, i - 1)>> \o Split(SubSeq(s, i + 1, Len(s)), sep)

\* The conversion of a thrown value to a string by a template literal:
\* a string is itself, an Error is Error.prototype.toString().
StringOf(err) ==
    IF err.kind = "string" THEN err.message
    ELSE IF err.message = "" THEN err.name
    ELSE IF err.name = "" THEN err.message
    ELSE err.name \o ": " \o err.message

\* A default message built from the short commit id and a single newline.
defaultMessageShort(c) ==
    "Revert \"" \o Split(c.commit_msg, "\n")[1] \o "\"\nThis reverts commit "
        \o Slice(c.commit, 0, 7)

\* _defaultMessage() for props.commit = c.
defaultMessage(c) ==
    LET summary == Split(c.commit_msg, "\n")[1]
    IN  "Revert \"" \o summary \o "\"\n\nThis reverts commit " \o c.commit

(***************************************************************************)
(* The inputs of the model of the component.                               *)
(***************************************************************************)
Variants == {"reset", "delete"}

\* Commit ids longer than, as long as and shorter than the short id.
CommitIds == {"abcdef1234567890", "1234567", "abc12"}

CommitMessages ==
    {"Fix bug\n\nDetails here", "single line", "", "\nstarts with a newline", "a\nb\nc"}

Commits == [commit : CommitIds, commit_msg : CommitMessages]

\* What the user types into the message box (event.target.value): nothing, a
\* line, two lines, and a text that reads like a derived default message.
Drafts == {"", "typed", "two\nlines", "Revert \"\"\n\nThis reverts commit abc12"}

\* What a rejected service call throws.
Thrown ==
    {[kind |-> "error", name |-> "Error", message |-> "boom"],
     [kind |-> "error", name |-> "TypeError", message |-> ""],
     [kind |-> "string", name |-> "", message |-> "fatal: bad revision"]}

\* A collaborator call as it is recorded in the log.
Call(fn, args) == [fn |-> fn, args |-> args]

\* The calls of the repository service, of the error surface and of onClose so far.
ServiceCalls == SelectSeq(log, LAMBDA c : c.fn \in {"resetToCommit", "deleteCommit"})
ErrorCalls == SelectSeq(log, LAMBDA c : c.fn = "showErrorMessage")
CloseCalls == SelectSeq(log, LAMBDA c : c.fn = "onClose")

(***************************************************************************)
(* src/unnamed/part_000: the component.                                    *)
(***************************************************************************)
\* The constructor: props are given, state is {message: '', disabled: false}.
InitComponent ==
    /\ action \in Variants
    /\ commit \in Commits
    /\ message = ""
    /\ disabled = FALSE
    /\ pending = <<>>
    /\ log = <<>>
    /\ cancelled = FALSE
    /\ derivations = 0
    /\ outcomes = <<>>
    /\ thrown = <<>>
    /\ submitPromise = "none"

\* A button that render() never disables.
NeverDisabled == FALSE

\* render(): the `disabled` attribute of the Cancel button.
CancelButtonDisabled == disabled

\* render(): the `disabled` attribute of the submit button.
SubmitButtonDisabled == disabled

\* render(): the message box exists for the delete action only, and its
\* `disabled` attribute.
TextareaRendered == action = "delete"
TextareaDisabled == disabled

\* _onCancelClick calling the repository service before it closes.
onCancelClickCalls ==
    /\ message' = ""
    /\ disabled' = TRUE
    /\ log' = log \o <<Call("resetToCommit", <<commit.commit>>), Call("onClose", <<>>)>>
    /\ cancelled' = TRUE
    /\ UNCHANGED <<action, commit, pending, derivations, outcomes, submitPromise>>
    /\ UNCHANGED activateVars
    /\ UNCHANGED thrown

\* _onCancelClick that keeps the typed message.
onCancelClickKeepsDraft ==
    /\ message' = message
    /\ disabled' = TRUE
    /\ log' = Append(log, Call("onClose", <<>>))
    /\ cancelled' = TRUE
    /\ UNCHANGED <<action, commit, pending, derivations, outcomes, submitPromise>>
    /\ UNCHANGED activateVars
    /\ UNCHANGED thrown

\* _onCancelClick.
onCancelClick ==
    /\ message' = ""
    /\ disabled' = TRUE
    /\ log' = Append(log, Call("onClose", <<>>))
    /\ cancelled' = TRUE
    /\ UNCHANGED <<action, commit, pending, derivations, outcomes, submitPromise>>
    /\ UNCHANGED activateVars
    /\ UNCHANGED thrown

\* _onMessageChange(event) with event.target.value = v.
onMessageChange(v) ==
    /\ message' = v
    /\ UNCHANGED <<action, commit, disabled, pending, log, cancelled,
                   derivations, outcomes, thrown, submitPromise>>
    /\ UNCHANGED activateVars
    /\ UNCHANGED thrown

\* The message argument of deleteCommit: `this.state.message || this._defaultMessage()`.
\* The right operand of || is evaluated only when the left one is falsy, and a
\* string is falsy exactly when it is empty.
DeleteMessageAlwaysDefault(m, c) == defaultMessage(c)

DeleteMessage(m, c) == IF m # "" THEN m ELSE defaultMessage(c)

\* _onSubmitClick that leaves state.disabled alone.
onSubmitClickNoDisable ==
    /\ disabled' = disabled
    /\ log' = Append(log, IF action = "reset"
                          THEN Call("resetToCommit", <<commit.commit>>)
                          ELSE Call("deleteCommit",
                                    <<DeleteMessage(message, commit), commit.commit>>))
    /\ derivations' = derivations + (IF action # "reset" /\ message = "" THEN 1 ELSE 0)
    /\ pending' = Append(pending, [shortCommit |-> Slice(commit.commit, 0, 7),
                                   branch |-> action])
    /\ submitPromise' = "pending"
    /\ UNCHANGED <<action, commit, message, cancelled, outcomes>>
    /\ UNCHANGED activateVars
    /\ UNCHANGED thrown

\* _onSubmitClick that does not await its service call: it closes at once.
onSubmitClickNoAwait ==
    /\ disabled' = TRUE
    /\ log' = log \o <<IF action = "reset"
                       THEN Call("resetToCommit", <<commit.commit>>)
                       ELSE Call("deleteCommit",
                                 <<DeleteMessage(message, commit), commit.commit>>),
                       Call("onClose", <<>>)>>
    /\ derivations' = derivations + (IF action # "reset" /\ message = "" THEN 1 ELSE 0)
    /\ submitPromise' = "fulfilled"
    /\ UNCHANGED <<action, commit, message, cancelled, outcomes, pending>>
    /\ UNCHANGED activateVars
    /\ UNCHANGED thrown

\* _onSubmitClick that passes the short commit id to the repository service.
onSubmitClickShortId ==
    /\ disabled' = TRUE
    /\ log' = Append(log, IF action = "reset"
                          THEN Call("resetToCommit", <<Slice(commit.commit, 0, 7)>>)
                          ELSE Call("deleteCommit",
                                    <<DeleteMessage(message, commit),
                                      Slice(commit.commit, 0, 7)>>))
    /\ derivations' = derivations + (IF action # "reset" /\ message = "" THEN 1 ELSE 0)
    /\ pending' = Append(pending, [shortCommit |-> Slice(commit.commit, 0, 7),
                                   branch |-> action])
    /\ submitPromise' = "pending"
    /\ UNCHANGED <<action, commit, message, cancelled, outcomes>>
    /\ UNCHANGED activateVars
    /\ UNCHANGED thrown

\* _onSubmitClick from its entry to its await: shortCommit is taken, disabled
\* is set, the service call of the action is made and the function suspends.
onSubmitClick ==
    /\ disabled' = TRUE
    /\ log' = Append(log, IF action = "reset"
                          THEN Call("resetToCommit", <<commit.commit>>)
                          ELSE Call("deleteCommit",
                                    <<DeleteMessage(message, commit), commit.commit>>))
    /\ derivations' = derivations + (IF action # "reset" /\ message = "" THEN 1 ELSE 0)
    /\ pending' = Append(pending, [shortCommit |-> Slice(commit.commit, 0, 7),
                                   branch |-> action])
    /\ submitPromise' = "pending"
    /\ UNCHANGED <<action, commit, message, cancelled, outcomes>>
    /\ UNCHANGED activateVars
    /\ UNCHANGED thrown

\* The sequence without its i-th element.
RemoveAt(seq, i) == SubSeq(seq, 1, i - 1) \o SubSeq(seq, i + 1, Len(seq))

\* The service call settled with success and state.disabled cleared again.
ServiceResolvesReenabling(i) ==
    /\ i \in DOMAIN pending
    /\ pending' = RemoveAt(pending, i)
    /\ log' = Append(log, Call("onClose", <<>>))
    /\ submitPromise' = "fulfilled"
    /\ outcomes' = Append(outcomes, "resolved")
    /\ disabled' = FALSE
    /\ UNCHANGED <<action, commit, message, cancelled, derivations>>
    /\ UNCHANGED activateVars
    /\ UNCHANGED thrown

\* A resolved service call after which the error is shown all the same.
ServiceResolvesShowsError(i) ==
    /\ i \in DOMAIN pending
    /\ pending' = RemoveAt(pending, i)
    /\ log' = log \o <<Call("showErrorMessage",
                            <<"Error Reverting Changes",
                              "Failed to revert " \o pending[i].shortCommit>>),
                       Call("onClose", <<>>)>>
    /\ submitPromise' = "fulfilled"
    /\ outcomes' = Append(outcomes, "resolved")
    /\ UNCHANGED <<action, commit, message, disabled, cancelled, derivations>>
    /\ UNCHANGED activateVars
    /\ UNCHANGED thrown

\* The awaited service call of the i-th suspended _onSubmitClick resolves: the
\* function resumes after the try statement, calls onClose and returns.
ServiceResolves(i) ==
    /\ i \in DOMAIN pending
    /\ pending' = RemoveAt(pending, i)
    /\ log' = Append(log, Call("onClose", <<>>))
    /\ submitPromise' = "fulfilled"
    /\ outcomes' = Append(outcomes, "resolved")
    /\ UNCHANGED <<action, commit, message, disabled, cancelled, derivations>>
    /\ UNCHANGED activateVars
    /\ UNCHANGED thrown

\* The arguments of showErrorMessage in the catch block of a branch.
ErrorTitle(branch) ==
    IF branch = "reset" THEN "Error Removing Changes" ELSE "Error Reverting Changes"

\* An error detail that leaves out what was thrown.
ErrorDetailNoCause(branch, shortCommit, err) ==
    IF branch = "reset"
    THEN "Failed to discard changes after " \o shortCommit
    ELSE "Failed to revert " \o shortCommit

ErrorDetail(branch, shortCommit, err) ==
    IF branch = "reset"
    THEN "Failed to discard changes after " \o shortCommit \o ": " \o StringOf(err)
    ELSE "Failed to revert " \o shortCommit \o ": " \o StringOf(err)

\* A rejection that no catch block handles: the function ends at the await.
ServiceRejectsUncaught(i, err) ==
    /\ i \in DOMAIN pending
    /\ pending' = RemoveAt(pending, i)
    /\ submitPromise' = "rejected"
    /\ outcomes' = Append(outcomes, "rejected")
    /\ UNCHANGED <<action, commit, message, disabled, log, cancelled, derivations>>
    /\ UNCHANGED activateVars
    /\ thrown' = Append(thrown, err)

\* A rejection after which onClose is called before the error is shown.
ServiceRejectsCloseFirst(i, err) ==
    /\ i \in DOMAIN pending
    /\ pending' = RemoveAt(pending, i)
    /\ log' = log \o <<Call("onClose", <<>>),
                       Call("showErrorMessage",
                            <<ErrorTitle(pending[i].branch),
                              ErrorDetail(pending[i].branch, pending[i].shortCommit, err)>>)>>
    /\ submitPromise' = "fulfilled"
    /\ outcomes' = Append(outcomes, "rejected")
    /\ UNCHANGED <<action, commit, message, disabled, cancelled, derivations>>
    /\ UNCHANGED activateVars
    /\ thrown' = Append(thrown, err)

\* The awaited service call of the i-th suspended _onSubmitClick rejects with
\* err: the catch block of its branch calls showErrorMessage, then the function
\* calls onClose and returns.
ServiceRejects(i, err) ==
    /\ i \in DOMAIN pending
    /\ pending' = RemoveAt(pending, i)
    /\ log' = log \o <<Call("showErrorMessage",
                            <<ErrorTitle(pending[i].branch),
                              ErrorDetail(pending[i].branch, pending[i].shortCommit, err)>>),
                       Call("onClose", <<>>)>>
    /\ submitPromise' = "fulfilled"
    /\ outcomes' = Append(outcomes, "rejected")
    /\ UNCHANGED <<action, commit, message, disabled, cancelled, derivations>>
    /\ UNCHANGED activateVars
    /\ thrown' = Append(thrown, err)

\* The user's triggers, as far as render() lets them through.
ClickCancel == ~CancelButtonDisabled /\ onCancelClick

ClickSubmit == ~SubmitButtonDisabled /\ onSubmitClick

TypeMessage(v) == TextareaRendered /\ ~TextareaDisabled /\ onMessageChange(v)

\* A change event of the message box that reaches _onMessageChange whatever
\* state.disabled is: the handler itself does not look at it.
MessageChangeEvent(v) == TextareaRendered /\ onMessageChange(v)

(***************************************************************************)
(* The specifications.                                                     *)
(***************************************************************************)
\* A component that is constructed and left alone while index.ts is explored.
ComponentAtRest ==
    /\ action = "reset"
    /\ commit = [commit |-> "abcdef1234567890", commit_msg |-> "Fix bug\n\nDetails here"]
    /\ message = ""
    /\ disabled = FALSE
    /\ pending = <<>>
    /\ log = <<>>
    /\ cancelled = FALSE
    /\ derivations = 0
    /\ outcomes = <<>>
    /\ thrown = <<>>
    /\ submitPromise = "none"

\* The program with a component of any action and commit.
Init == InitActivate /\ InitComponent

\* The program while only index.ts is explored.
InitPlugin == InitActivate /\ ComponentAtRest

NextActivate ==
    \/ Activate
    \/ AppRestored
    \/ BrowserRestored
    \/ RestoreCallback
    \/ \E d \in Paths : BrowserPathChanged(d)
    \/ BrowserFileChanged
    \/ \E e \in EventSample : onEvent(e)

NextTranslate ==
    \/ Activate
    \/ \E e \in EventInputs : onEvent(e)

NextComponent ==
    \/ ClickCancel
    \/ ClickSubmit
    \/ \E v \in Drafts : TypeMessage(v)
    \/ \E i \in DOMAIN pending : ServiceResolves(i)
    \/ \E i \in DOMAIN pending, err \in Thrown : ServiceRejects(i, err)

Next == NextActivate \/ NextComponent

\* The whole program.
Spec == Init /\ [][Next]_vars

\* activate() and its handlers, with a sample of the event names.
SpecActivate == InitPlugin /\ [][NextActivate]_vars

\* onEvent over all the event names of the model.
SpecTranslate == InitPlugin /\ [][NextTranslate]_vars

\* One ResetDeleteSingleCommit component, for every action and commit.
SpecComponent == Init /\ [][NextComponent]_vars

\* An awaited service call settles and the suspended _onSubmitClick resumes.
Settles ==
    \/ \E i \in DOMAIN pending : ServiceResolves(i)
    \/ \E i \in DOMAIN pending, err \in Thrown : ServiceRejects(i, err)

\* The component with a repository service that settles every call: the
\* continuation of an await runs once its promise is settled, and here every
\* promise of the service is settled eventually.
SpecComponentFair == Init /\ [][NextComponent]_vars /\ WF_vars(Settles)

NextComponentDirect ==
    \/ ClickCancel
    \/ ClickSubmit
    \/ \E v \in Drafts : MessageChangeEvent(v)
    \/ \E i \in DOMAIN pending : ServiceResolves(i)
    \/ \E i \in DOMAIN pending, err \in Thrown : ServiceRejects(i, err)

\* The component with change events delivered to _onMessageChange at any
\* time, also after a submit or a cancel.
SpecComponentDirect == Init /\ [][NextComponentDirect]_vars

(***************************************************************************)
(* Properties of the repository path (SpecActivate).                       *)
(***************************************************************************)
Last(seq) == seq[Len(seq)]

\* The directory changes the pathChanged handler has applied, in order.
AppliedChanges == SelectSeq(pathWrites, LAMBDA w : w.by = "pathChanged")

\* C1: after any directory changes d1..dn (n >= 1) and wherever the restore
\* callback runs among them, the repository path is dn: it is the newValue of
\* the latest change the handler applied, and once the restore callback has run
\* it is the directory of the latest change of the browser, also when that
\* change came before the handler was connected.  The restore callback never
\* puts back a directory older than an applied change.
C1_LatestDirectoryWins ==
    /\ AppliedChanges # <<>> => pathRepository = Last(AppliedChanges).value
    /\ (restoreRan /\ cdCount >= 1) => pathRepository = fbPath

\* C1 witness: the restore callback ran between two applied directory changes
\* to different directories.
C1_Witness ==
    /\ Len(pathWrites) = 3
    /\ pathWrites[1].by = "pathChanged"
    /\ pathWrites[2].by = "restore"
    /\ pathWrites[3].by = "pathChanged"
    /\ pathWrites[3].value # pathWrites[1].value

(***************************************************************************)
(* Properties of the component (SpecComponent).                            *)
(***************************************************************************)
\* C2: at most one call of resetToCommit or deleteCommit is ever made by a
\* component, so at most one is in flight: once a submit is dispatched, no
\* submit or cancel trigger starts a second one.
C2_SingleFlight ==
    /\ Len(ServiceCalls) <= 1
    /\ Len(pending) <= 1

\* C2 witness: a service call was dispatched and is in flight.
C2_Witness ==
    /\ Len(ServiceCalls) = 1
    /\ Len(pending) = 1

\* C3: onClose is called exactly once per component: at cancel, or at the end
\* of the submit, after the service call settled either way; never before the
\* call settles and never a second time.
C3_CloseExactlyOnce ==
    /\ Len(CloseCalls) <= 1
    /\ cancelled => Len(CloseCalls) = 1
    /\ submitPromise = "pending" => Len(CloseCalls) = 0
    /\ submitPromise = "fulfilled" => Len(CloseCalls) = 1
    /\ (~cancelled /\ submitPromise = "none") => Len(CloseCalls) = 0

\* C3 witness: a submit ended after a service call that resolved, and onClose
\* was called.
C3_Witness ==
    /\ outcomes = <<"resolved">>
    /\ submitPromise = "fulfilled"
    /\ Len(CloseCalls) = 1

\* C4: when the service call of a submit rejects, showErrorMessage is called
\* with the title "Error Removing Changes" for reset and "Error Reverting
\* Changes" for delete, onClose is still called, and the promise of the submit
\* is fulfilled, not rejected.
C4_RejectionReported ==
    (\E i \in DOMAIN outcomes : outcomes[i] = "rejected") =>
        /\ Len(ErrorCalls) = 1
        /\ ErrorCalls[1].args[1] = (IF action = "reset"
                                    THEN "Error Removing Changes"
                                    ELSE "Error Reverting Changes")
        /\ Len(CloseCalls) = 1
        /\ submitPromise = "fulfilled"

\* C4 witness: the service call of a delete rejected.
C4_Witness ==
    /\ action = "delete"
    /\ outcomes = <<"rejected">>

\* C5: a cancel calls neither resetToCommit nor deleteCommit, whatever the
\* action of the component, and calls onClose.
C5_CancelOnlyCloses ==
    [][(cancelled' /\ ~cancelled) =>
          /\ ServiceCalls' = ServiceCalls
          /\ Len(CloseCalls') = Len(CloseCalls) + 1]_vars

\* C5 witness: a delete component was cancelled and closed.
C5_Witness ==
    /\ action = "delete"
    /\ cancelled
    /\ Len(CloseCalls) = 1

\* C7: _onSubmitClick sets disabled before it suspends, so whenever a service
\* call of a submit has been made or is in flight, disabled is true.
C7_BusyBeforeCall ==
    (ServiceCalls # <<>> \/ pending # <<>>) => disabled

\* C7 witness: a reset is in flight and the component is disabled.
C7_Witness ==
    /\ action = "reset"
    /\ pending # <<>>
    /\ disabled

\* C8: disabled never goes back to false: no step (a settled service call, an
\* edit of the message, the close) enables the component again.
C8_BusyIrreversible == [][disabled => disabled']_vars

\* C8 witness: the service call of a submit resolved and the component is
\* still disabled.
C8_Witness ==
    /\ disabled
    /\ outcomes = <<"resolved">>
    /\ pending = <<>>

\* The derived default message as the documentation words it: Revert, the
\* summary in double quotes, two newlines, "This reverts commit " and the full
\* commit id; the summary is the part of the commit message before its first
\* newline, the whole message when it has none.
IsSummaryOf(summary, msg) ==
    /\ Len(summary) <= Len(msg)
    /\ SubSeq(msg, 1, Len(summary)) = summary
    /\ \A i \in 1..Len(summary) : SubSeq(summary, i, i) # "\n"
    /\ Len(summary) < Len(msg) => SubSeq(msg, Len(summary) + 1, Len(summary) + 1) = "\n"

IsDocumentedDefault(c, text) ==
    \E n \in 0..Len(c.commit_msg) :
        LET summary == SubSeq(c.commit_msg, 1, n)
        IN  /\ IsSummaryOf(summary, c.commit_msg)
            /\ text = "Revert " \o "\"" \o summary \o "\"" \o "\n" \o "\n"
                        \o "This reverts commit " \o c.commit

\* C9: the message a delete submit passes to deleteCommit is the typed
\* message as it is when one is typed, without the default being derived, and
\* the derived default message exactly when the typed message is empty.
C9_DeleteMessageChoice ==
    [][(Len(ServiceCalls') = Len(ServiceCalls) + 1 /\ action = "delete") =>
          LET sent == Last(ServiceCalls').args[1]
          IN  /\ Last(ServiceCalls').fn = "deleteCommit"
              /\ message # "" => (sent = message /\ derivations' = derivations)
              /\ message = "" => (IsDocumentedDefault(commit, sent)
                                  /\ derivations' = derivations + 1)]_vars

\* C9 witness: a delete was submitted with a typed message of two lines.
C9_Witness ==
    /\ ServiceCalls # <<>>
    /\ ServiceCalls[1].fn = "deleteCommit"
    /\ message = "two\nlines"
    /\ ServiceCalls[1].args[1] = "two\nlines"

\* C10: the derived default message of every commit is Revert "<summary>",
\* exactly two newlines and This reverts commit <full id>, with the summary
\* the commit message up to its first newline; it is what a delete with no
\* typed message sends.
C10_DefaultMessageFormat ==
    /\ IsDocumentedDefault(commit, defaultMessage(commit))
    /\ \A i \in DOMAIN ServiceCalls :
          (ServiceCalls[i].fn = "deleteCommit" /\ derivations > 0) =>
              IsDocumentedDefault(commit, ServiceCalls[i].args[1])

\* C10 witness: the commit of the documentation's example was reverted with
\* the derived default message.
C10_Witness ==
    /\ commit = [commit |-> "abcdef1234567890", commit_msg |-> "Fix bug\n\nDetails here"]
    /\ derivations = 1
    /\ ServiceCalls # <<>>
    /\ ServiceCalls[1].args[1] = "Revert \"Fix bug\"\n\nThis reverts commit abcdef1234567890"

(***************************************************************************)
(* Properties of the status texts (SpecTranslate).                         *)
(***************************************************************************)
\* s starts with prefix.
StartsWith(s, prefix) == OccursAt(s, prefix, 1)

\* The status text as the documentation's table gives it: the eleven named
\* events, "adding files..." for a name that starts with git:add:files, and
\* "working..." for every other name.
DocumentedText(event) ==
    CASE event = "git:checkout"      -> "checking out..."
      [] event = "git:clone"         -> "cloning repository..."
      [] event = "git:commit:create" -> "committing changes..."
      [] event = "git:commit:revert" -> "reverting changes..."
      [] event = "git:idle"          -> "idle"
      [] event = "git:init"          -> "initializing repository..."
      [] event = "git:pull"          -> "pulling changes..."
      [] event = "git:pushing"       -> "pushing changes..."
      [] event = "git:refresh"       -> "refreshing..."
      [] event = "git:reset:changes" -> "resetting changes..."
      [] event = "git:reset:hard"    -> "discarding changes..."
      [] OTHER -> IF StartsWith(event, AddFilesPattern)
                  THEN "adding files..."
                  ELSE "working..."

\* C6: the status text of every event name is the documented one: the listed
\* text for the eleven named events, "adding files..." for every name that
\* starts with git:add:files, and "working..." for every other name, also for
\* one that holds git:add:files after a non-empty prefix.
C6_TranslateAsDocumented ==
    lastEvent # NoEvent => status = DocumentedText(lastEvent)

(***************************************************************************)
(* Properties of the status text (SpecActivate).                           *)
(***************************************************************************)
\* C11: after any sequence of logger events the text of the status widget is
\* the text the switch of onEvent gives for the latest event: the text of an
\* earlier event is not kept, queued or merged.  Before the first event the
\* widget has no text.
C11_LastEventWins ==
    /\ eventCount = 0 => status = NoStatus
    /\ eventCount > 0 => status = translate(lastEvent)

\* C11 witness: a second event was emitted and the widget shows the text of
\* git:idle.
C11_Witness ==
    /\ eventCount = 2
    /\ lastEvent = "git:idle"
    /\ status = "idle"

(***************************************************************************)
(* Further properties of the component (SpecComponent).                    *)
(***************************************************************************)
\* The number of service calls that rejected.
Rejections == Len(SelectSeq(outcomes, LAMBDA o : o = "rejected"))

\* C12: whenever the service call of a submit fails, showErrorMessage is
\* called, and it is called before onClose: the component is never closed with
\* the error shown only afterwards or not at all.
C12_ErrorBeforeClose ==
    /\ Rejections > 0 => ErrorCalls # <<>>
    /\ \A i, j \in DOMAIN log :
          (log[i].fn = "showErrorMessage" /\ log[j].fn = "onClose") => i < j

\* C12 witness: a reset was rejected: the log holds the call, the error and
\* the close, in this order.
C12_Witness ==
    /\ action = "reset"
    /\ outcomes = <<"rejected">>
    /\ Len(log) = 3
    /\ log[2].fn = "showErrorMessage"
    /\ log[3].fn = "onClose"

(***************************************************************************)
(* Further properties of the repository path (SpecActivate).               *)
(***************************************************************************)
\* The assignments the restore callback has made.
RestoreWrites == SelectSeq(pathWrites, LAMBDA w : w.by = "restore")

\* C13: the restore callback assigns the repository path at most once, and
\* only when app.restored and filebrowser.model.restored are both resolved,
\* whichever resolved first; while one of them is unresolved it has assigned
\* nothing.  What it assigns is the directory the browser has at that moment.
C13_RestoreJoin ==
    [][/\ Len(RestoreWrites') <= 1
       /\ RestoreWrites' # <<>> => (appRestored' /\ fbRestored')
       /\ RestoreWrites' # RestoreWrites =>
             /\ appRestored /\ fbRestored
             /\ Last(pathWrites') = [by |-> "restore", value |-> fbPath]
             /\ pathRepository' = fbPath]_vars

\* C13 witness: the restore callback assigned a directory the browser had
\* moved to, and nothing else was assigned.
C13_Witness ==
    /\ appRestored /\ fbRestored
    /\ pathWrites = <<[by |-> "restore", value |-> "/b"]>>
    /\ pathRepository = "/b"

\* C14: every directory change is applied when it is notified, in order and
\* whatever was assigned before: right after the k-th notification the
\* repository path is its newValue, also over a value the restore callback
\* assigned; no notification is dropped or merged with another.
C14_ChangesAppliedInOrder ==
    [][(cdCount' = cdCount + 1 /\ activated) =>
          /\ pathRepository' = fbPath'
          /\ pathWrites' = Append(pathWrites, [by |-> "pathChanged", value |-> fbPath'])]_vars

\* C14 witness: a directory change overwrote the value the restore callback
\* had assigned, and a second one overwrote the first.
C14_Witness ==
    /\ Len(pathWrites) = 3
    /\ pathWrites[1].by = "restore"
    /\ pathWrites[2] = [by |-> "pathChanged", value |-> "/a"]
    /\ pathWrites[3] = [by |-> "pathChanged", value |-> "/c"]
    /\ pathRepository = "/c"

\* A service call of a submit has been made and has not settled.
InFlight == Len(ServiceCalls) > Len(outcomes)

\* C15: on the submit path onClose is called only after the service call has
\* settled: while the call is in flight the component is disabled, not closed
\* and its submit unfinished, for as long as that lasts (there is no timeout);
\* once the call has resolved or rejected the component is closed, so with a
\* service that settles its calls every submit leads to the close.
C15_CloseAfterSettle ==
    /\ [](InFlight => (disabled /\ CloseCalls = <<>> /\ submitPromise = "pending"))
    /\ []((ServiceCalls # <<>> /\ ~InFlight) => Len(CloseCalls) = 1)
    /\ (InFlight ~> (~InFlight /\ Len(CloseCalls) = 1))

\* C15 witness: a delete is in flight, the component is disabled and not closed.
C15_Witness ==
    /\ action = "delete"
    /\ InFlight
    /\ disabled
    /\ CloseCalls = <<>>

\* C16: a submit calls exactly one operation of the repository service, the
\* one of the action the component was constructed with: resetToCommit with
\* the full commit id for reset, and never deleteCommit; deleteCommit with the
\* full commit id for delete, and never resetToCommit.
C16_OneCallOfTheVariant ==
    /\ submitPromise # "none" => Len(ServiceCalls) = 1
    /\ \A i \in DOMAIN ServiceCalls :
          LET c == ServiceCalls[i]
          IN  /\ action = "reset" => c = Call("resetToCommit", <<commit.commit>>)
              /\ action = "delete" =>
                    /\ c.fn = "deleteCommit"
                    /\ Len(c.args) = 2
                    /\ c.args[2] = commit.commit

\* C16 witness: a reset of a commit with a long id was submitted and
\* resetToCommit was given the whole id.
C16_Witness ==
    /\ action = "reset"
    /\ commit.commit = "abcdef1234567890"
    /\ ServiceCalls = <<Call("resetToCommit", <<"abcdef1234567890">>)>>

\* pat occurs somewhere in s (the empty string occurs in every string).
Contains(s, pat) == \E i \in 1..(Len(s) + 1) : OccursAt(s, pat, i)

\* The first seven characters of a commit id, the whole id when it is shorter.
ShortIdOf(id) == IF Len(id) <= 7 THEN id ELSE SubSeq(id, 1, 7)

\* The name of the attempted action in an error detail.
ActionName(variant) == IF variant = "reset" THEN "discard changes after" ELSE "revert"

\* C17: the detail of the error shown for a failed submit holds the first
\* seven characters of the commit id (the whole id when it is shorter), the
\* name of the action ("discard changes after" for reset, "revert" for delete)
\* and what the service call threw: its message, and its name when it is an
\* Error; the service call itself was made with the full commit id.
C17_ErrorDetail ==
    /\ Len(ErrorCalls) = Len(thrown)
    /\ \A i \in DOMAIN ErrorCalls :
          LET detail == ErrorCalls[i].args[2]
          IN  /\ Contains(detail, ShortIdOf(commit.commit))
              /\ Contains(detail, ActionName(action))
              /\ Contains(detail, thrown[i].message)
              /\ thrown[i].kind = "error" => Contains(detail, thrown[i].name)
              /\ Last(ServiceCalls[1].args) = commit.commit

\* C17 witness: the revert of a commit with a long id failed with an Error.
C17_Witness ==
    /\ action = "delete"
    /\ commit.commit = "abcdef1234567890"
    /\ thrown = <<[kind |-> "error", name |-> "Error", message |-> "boom"]>>
    /\ Len(ErrorCalls) = 1
    /\ ErrorCalls[1].args[2] = "Failed to revert abcdef1: Error: boom"

(***************************************************************************)
(* The streams of index.ts are independent (SpecActivate).                 *)
(***************************************************************************)
\* C18: every fileChanged notification makes exactly one call of
\* refreshStatus() and leaves the repository path alone; a logger event leaves
\* the repository path alone, and an assignment of the repository path leaves
\* the status text alone.
C18_IndependentStreams ==
    [][/\ refreshCalls' = fileChanges'
       /\ fileChanges' # fileChanges =>
             /\ refreshCalls' = refreshCalls + 1
             /\ UNCHANGED <<pathRepository, pathWrites>>
       /\ eventCount' # eventCount => UNCHANGED <<pathRepository, pathWrites>>
       /\ pathWrites' # pathWrites => UNCHANGED status]_vars

\* C18 witness: two file changes were notified and refreshed, with a path
\* assigned and a status shown.
C18_Witness ==
    /\ fileChanges = 2
    /\ refreshCalls = 2
    /\ pathRepository = "/a"
    /\ status = "refreshing..."

\* C19: showErrorMessage is called only for a rejected service call of a
\* submit: once for each rejection, so at most once for a submit, never when
\* the call resolved and never on a cancel.
C19_ErrorOnlyOnRejection ==
    /\ Len(ErrorCalls) = Rejections
    /\ Len(ErrorCalls) <= Len(ServiceCalls)
    /\ cancelled => ErrorCalls = <<>>
    /\ (outcomes # <<>> /\ Rejections = 0) => ErrorCalls = <<>>

\* C19 witness: a delete resolved and was closed with no error shown.
C19_Witness ==
    /\ action = "delete"
    /\ outcomes = <<"resolved">>
    /\ ErrorCalls = <<>>
    /\ Len(CloseCalls) = 1

(***************************************************************************)
(* Edits of the message at any time (SpecComponentDirect).                 *)
(***************************************************************************)
\* C20: the message of deleteCommit is fixed when the call is made: a change
\* of the message box that reaches _onMessageChange after the submit, which
\* the handler does not refuse, changes state.message and neither changes the
\* call that was made nor makes another one; a cancel empties state.message
\* and a submit leaves it as it is.
C20_MessageFixedAtDispatch ==
    [][/\ SubSeq(log', 1, Len(log)) = log
       /\ (message' # message /\ cancelled' = cancelled) => UNCHANGED <<log, pending>>
       /\ (cancelled' /\ ~cancelled) => message' = ""
       /\ Len(ServiceCalls') > Len(ServiceCalls) => message' = message]_vars

\* C20 witness: a delete was submitted with the message "typed", and while the
\* call is in flight the message box was changed to two lines.
C20_Witness ==
    /\ ServiceCalls = <<Call("deleteCommit", <<"typed", commit.commit>>)>>
    /\ Len(pending) = 1
    /\ disabled
    /\ message = "two\nlines"

=============================================================================
